---- MODULE Spec2Model ----
(***************************************************************************)
(* block_eval: evaluate a block of statements and return the value of its  *)
(* trailing expression.  The module models src/block_eval.py: the text of  *)
(* a block (lines with an indentation level), ast.parse, split_block, the  *)
(* two compile calls, the scope resolution of block_eval, and exec/eval    *)
(* against a pair of name -> value mappings.                               *)
(***************************************************************************)
EXTENDS Integers, Sequences, FiniteSets, TLC

\* Number of block_eval / split_block calls one behaviour makes.
MaxCalls == 2

----------------------------------------------------------------------------
(* Python values *)

IntV(n) == [t |-> "int", n |-> n]
NoneV == [t |-> "NoneType", n |-> 0]
BuiltinsV == [t |-> "module", n |-> 0]

----------------------------------------------------------------------------
(* Expression and statement nodes, as ast.parse builds them *)

Const(v) == [k |-> "Constant", value |-> v]
Name(id) == [k |-> "Name", id |-> id]
BinOp(l, op, r) == [k |-> "BinOp", left |-> l, op |-> op, right |-> r]
Yield(e) == [k |-> "Yield", value |-> e]
Num(n) == Const(IntV(n))

Assign(target, value) == [k |-> "Assign", target |-> target, value |-> value]
AugAssign(target, op, value) ==
    [k |-> "AugAssign", target |-> target, op |-> op, value |-> value]
For(target, lo, hi, body) ==
    [k |-> "For", target |-> target, lo |-> lo, hi |-> hi, body |-> body]
If(test, body) == [k |-> "If", test |-> test, body |-> body]
Expr(value) == [k |-> "Expr", value |-> value]
Global(name) == [k |-> "Global", name |-> name]

\* ast.Expression(node): the root of a unit compiled in eval mode
Expression(e) == [k |-> "Expression", body |-> e]

----------------------------------------------------------------------------
(* Source text: a sequence of lines, each an indentation level (0 or 1)    *)
(* and the line's syntax.  "bad" is a line the grammar rejects.            *)

Ln(indent, s) == [indent |-> indent, s |-> s]
LAssign(target, e) == [t |-> "assign", target |-> target, e |-> e]
LAug(target, op, e) == [t |-> "aug", target |-> target, op |-> op, e |-> e]
LFor(target, lo, hi) == [t |-> "for", target |-> target, lo |-> lo, hi |-> hi]
LIf(test) == [t |-> "if", test |-> test]
LExpr(e) == [t |-> "expr", e |-> e]
LGlobal(name) == [t |-> "global", name |-> name]
LBad == [t |-> "bad"]

\* ""
TextEmpty == << >>
\* "6 * 7"
TextSimpleExpr == << Ln(0, LExpr(BinOp(Num(6), "*", Num(7)))) >>
\* "a * 7"
TextExprWithVar == << Ln(0, LExpr(BinOp(Name("a"), "*", Num(7)))) >>
\* "b = 42"
TextAssign == << Ln(0, LAssign("b", Num(42))) >>
\* "b"
TextName == << Ln(0, LExpr(Name("b"))) >>
\* "for i in range(0, 3):\n    i * 3"
TextNonReturning ==
    << Ln(0, LFor("i", 0, 3)), Ln(1, LExpr(BinOp(Name("i"), "*", Num(3)))) >>
\* "f = 1\nfor i in range(1, 3+1):\n    f *= i\nf"
TextReturning ==
    << Ln(0, LAssign("f", Num(1))), Ln(0, LFor("i", 1, 4)),
       Ln(1, LAug("f", "*", Name("i"))), Ln(0, LExpr(Name("f"))) >>
\* "f = a\nfor i in range(1, 3+1):\n    f *= i\nf // a"
TextWorkaround ==
    << Ln(0, LAssign("f", Name("a"))), Ln(0, LFor("i", 1, 4)),
       Ln(1, LAug("f", "*", Name("i"))),
       Ln(0, LExpr(BinOp(Name("f"), "//", Name("a")))) >>
\* "if a:\n    a * 7"
TextNestedInIf ==
    << Ln(0, LIf(Name("a"))), Ln(1, LExpr(BinOp(Name("a"), "*", Num(7)))) >>
\* "6 * 7\nb = 42"
TextExprNotLast ==
    << Ln(0, LExpr(BinOp(Num(6), "*", Num(7)))), Ln(0, LAssign("b", Num(42))) >>
\* "x = 5\nx"
TextAssignThenName == << Ln(0, LAssign("x", Num(5))), Ln(0, LExpr(Name("x"))) >>
\* "global x\nx = 1\nx"
TextGlobalDecl ==
    << Ln(0, LGlobal("x")), Ln(0, LAssign("x", Num(1))), Ln(0, LExpr(Name("x"))) >>
\* "b = 42\nb // 0"
TextTailFault ==
    << Ln(0, LAssign("b", Num(42))),
       Ln(0, LExpr(BinOp(Name("b"), "//", Num(0)))) >>
\* "b = 1\nf = q\nb = 2\nb"
TextPreambleFault ==
    << Ln(0, LAssign("b", Num(1))), Ln(0, LAssign("f", Name("q"))),
       Ln(0, LAssign("b", Num(2))), Ln(0, LExpr(Name("b"))) >>
\* "b = 42\nf = = 1"
TextBadLine == << Ln(0, LAssign("b", Num(42))), Ln(0, LBad) >>
\* "b = 42\n    b"
TextBadIndent == << Ln(0, LAssign("b", Num(42))), Ln(1, LExpr(Name("b"))) >>
\* "b = 42\nfor i in range(0, 3):"
TextNoSuite == << Ln(0, LAssign("b", Num(42))), Ln(0, LFor("i", 0, 3)) >>
\* "b = 42\nx = 1\nglobal x"
TextGlobalAfterUse ==
    << Ln(0, LAssign("b", Num(42))), Ln(0, LAssign("x", Num(1))),
       Ln(0, LGlobal("x")) >>
\* "b = 42\nyield b"
TextYieldTail == << Ln(0, LAssign("b", Num(42))), Ln(0, LExpr(Yield(Name("b")))) >>

Blocks ==
    { TextEmpty, TextSimpleExpr, TextExprWithVar, TextAssign, TextName,
      TextNonReturning,
      TextReturning, TextWorkaround, TextNestedInIf, TextExprNotLast,
      TextAssignThenName, TextGlobalDecl, TextTailFault, TextPreambleFault,
      TextBadLine, TextBadIndent, TextNoSuite, TextGlobalAfterUse,
      TextYieldTail }

----------------------------------------------------------------------------
(* ast.parse *)

SyntaxErr == [ok |-> FALSE, exc |-> "SyntaxError"]

ParseSimple(s) ==
    CASE s.t = "assign" -> Assign(s.target, s.e)
      [] s.t = "aug" -> AugAssign(s.target, s.op, s.e)
      [] s.t = "expr" -> Expr(s.e)
      [] s.t = "global" -> Global(s.name)

\* the last line of the indented suite that starts at line i (i - 1: no suite)
RECURSIVE SuiteEnd(_, _)
SuiteEnd(lines, i) ==
    IF i <= Len(lines) /\ lines[i].indent = 1
    THEN SuiteEnd(lines, i + 1)
    ELSE i - 1

ParseCompound(s, suite) ==
    LET body == [j \in 1..Len(suite) |-> ParseSimple(suite[j].s)]
    IN IF s.t = "for" THEN For(s.target, s.lo, s.hi, body) ELSE If(s.test, body)

RECURSIVE ParseLines(_, _, _)
ParseLines(lines, i, body) ==
    IF i > Len(lines) THEN [ok |-> TRUE, body |-> body]
    ELSE LET ln == lines[i] IN
      IF ln.s.t = "bad" \/ ln.indent # 0 THEN SyntaxErr
      ELSE IF ln.s.t \in {"for", "if"}
      THEN LET j == SuiteEnd(lines, i + 1) IN
           IF j = i THEN SyntaxErr          \* expected an indented block
           ELSE IF \E m \in (i + 1)..j : lines[m].s.t \in {"bad", "for", "if"}
           THEN SyntaxErr                   \* a compound line in the suite has no suite
           ELSE ParseLines(lines, j + 1,
                    Append(body, ParseCompound(ln.s, SubSeq(lines, i + 1, j))))
      ELSE ParseLines(lines, i + 1, Append(body, ParseSimple(ln.s)))

\* ast.parse(code_str): the Module node's body, or a SyntaxError
parse(code_str) == ParseLines(code_str, 1, << >>)

----------------------------------------------------------------------------
(* compile: the symbol table pass and the code object *)

RECURSIVE ExprNames(_)
ExprNames(e) ==
    CASE e.k = "Name" -> {e.id}
      [] e.k = "BinOp" -> ExprNames(e.left) \cup ExprNames(e.right)
      [] e.k = "Yield" -> ExprNames(e.value)
      [] OTHER -> {}

RECURSIVE HasYield(_)
HasYield(e) ==
    CASE e.k = "Yield" -> TRUE
      [] e.k = "BinOp" -> HasYield(e.left) \/ HasYield(e.right)
      [] OTHER -> FALSE

\* the statements of a body in source order, a compound statement before its suite
RECURSIVE Flatten(_)
Flatten(body) ==
    IF body = << >> THEN << >>
    ELSE LET s == Head(body) IN
         IF s.k \in {"For", "If"}
         THEN << s >> \o s.body \o Flatten(Tail(body))
         ELSE << s >> \o Flatten(Tail(body))

\* the names a statement's own line uses or assigns
StmtNames(s) ==
    CASE s.k = "Assign" -> {s.target} \cup ExprNames(s.value)
      [] s.k = "AugAssign" -> {s.target} \cup ExprNames(s.value)
      [] s.k = "For" -> {s.target}
      [] s.k = "If" -> ExprNames(s.test)
      [] s.k = "Expr" -> ExprNames(s.value)
      [] OTHER -> {}

StmtHasYield(s) ==
    CASE s.k \in {"Assign", "AugAssign", "Expr"} -> HasYield(s.value)
      [] s.k = "If" -> HasYield(s.test)
      [] OTHER -> FALSE

\* the names a module-level body declares global (its suites are the same scope)
GlobalNames(body) ==
    LET flat == Flatten(body)
    IN {flat[j].name : j \in {m \in 1..Len(flat) : flat[m].k = "Global"}}

\* "name is used prior to / assigned to before global declaration"
GlobalAfterUse(body) ==
    LET flat == Flatten(body)
    IN \E i, j \in 1..Len(flat) :
         i < j /\ flat[j].k = "Global" /\ flat[j].name \in StmtNames(flat[i])

\* compile(expr, block_name, 'eval')
CompileEval(expr) ==
    IF HasYield(expr.body) THEN SyntaxErr
    ELSE [ok |-> TRUE,
          code |-> [mode |-> "eval", body |-> expr.body, gnames |-> {}]]

\* compile(code_ast, block_name, 'exec')
CompileExec(body) ==
    LET flat == Flatten(body)
    IN IF (\E i \in 1..Len(flat) : StmtHasYield(flat[i])) \/ GlobalAfterUse(body)
       THEN SyntaxErr
       ELSE [ok |-> TRUE,
             code |-> [mode |-> "exec", body |-> body, gnames |-> GlobalNames(body)]]

----------------------------------------------------------------------------
(* Name -> value mappings.  A mapping is a function whose domain is the    *)
(* set of bound names; heap maps each mapping object to its content.       *)

Bind(m, n, v) == [x \in DOMAIN m \cup {n} |-> IF x = n THEN v ELSE m[x]]

\* exec and eval insert __builtins__ into a globals mapping that lacks it
EnsureBuiltins(h, g) ==
    IF "__builtins__" \in DOMAIN h[g] THEN h
    ELSE [h EXCEPT ![g] = Bind(h[g], "__builtins__", BuiltinsV)]

Raise(exc) == [ok |-> FALSE, exc |-> exc]
Value(v) == [ok |-> TRUE, v |-> v]

\* LOAD_GLOBAL for a name declared global, LOAD_NAME otherwise
Load(n, gnames, g, l, h) ==
    IF n \in gnames
    THEN IF n \in DOMAIN h[g] THEN Value(h[g][n]) ELSE Raise("NameError")
    ELSE IF n \in DOMAIN h[l] THEN Value(h[l][n])
         ELSE IF n \in DOMAIN h[g] THEN Value(h[g][n])
         ELSE Raise("NameError")

\* STORE_GLOBAL for a name declared global, STORE_NAME otherwise
Store(n, v, gnames, g, l, h) ==
    IF n \in gnames
    THEN [h EXCEPT ![g] = Bind(h[g], n, v)]
    ELSE [h EXCEPT ![l] = Bind(h[l], n, v)]

Apply(op, a, b) ==
    IF a.t # "int" \/ b.t # "int" THEN Raise("TypeError")
    ELSE CASE op = "*" -> Value(IntV(a.n * b.n))
           [] op = "+" -> Value(IntV(a.n + b.n))
           [] op = "//" -> IF b.n = 0 THEN Raise("ZeroDivisionError")
                           ELSE Value(IntV(a.n \div b.n))

RECURSIVE EvalExpr(_, _, _, _, _)
EvalExpr(e, gnames, g, l, h) ==
    CASE e.k = "Constant" -> Value(e.value)
      [] e.k = "Name" -> Load(e.id, gnames, g, l, h)
      [] e.k = "BinOp" ->
           LET a == EvalExpr(e.left, gnames, g, l, h) IN
           IF ~a.ok THEN a
           ELSE LET b == EvalExpr(e.right, gnames, g, l, h) IN
                IF ~b.ok THEN b ELSE Apply(e.op, a.v, b.v)

Truthy(v) == ~(v.t = "NoneType" \/ (v.t = "int" /\ v.n = 0))

\* the outcome of running statements: the heap they left and the fault, if any
Ran(h) == [ok |-> TRUE, h |-> h]
Faulted(exc, h) == [ok |-> FALSE, exc |-> exc, h |-> h]

\* one statement that has no suite
ExecSimple(s, gnames, g, l, h) ==
    CASE s.k = "Assign" ->
           LET r == EvalExpr(s.value, gnames, g, l, h) IN
           IF r.ok THEN Ran(Store(s.target, r.v, gnames, g, l, h))
           ELSE Faulted(r.exc, h)
      [] s.k = "AugAssign" ->
           LET a == Load(s.target, gnames, g, l, h) IN
           IF ~a.ok THEN Faulted(a.exc, h)
           ELSE LET b == EvalExpr(s.value, gnames, g, l, h) IN
                IF ~b.ok THEN Faulted(b.exc, h)
                ELSE LET r == Apply(s.op, a.v, b.v) IN
                     IF r.ok THEN Ran(Store(s.target, r.v, gnames, g, l, h))
                     ELSE Faulted(r.exc, h)
      [] s.k = "Expr" ->
           LET r == EvalExpr(s.value, gnames, g, l, h) IN
           IF r.ok THEN Ran(h) ELSE Faulted(r.exc, h)
      [] s.k = "Global" -> Ran(h)

\* the statements j.. of a suite, in order, stopping at the first fault
RECURSIVE ExecSuite(_, _, _, _, _, _)
ExecSuite(suite, j, gnames, g, l, h) ==
    IF j > Len(suite) THEN Ran(h)
    ELSE LET r == ExecSimple(suite[j], gnames, g, l, h) IN
         IF r.ok THEN ExecSuite(suite, j + 1, gnames, g, l, r.h) ELSE r

\* for target in range(i, hi): suite
RECURSIVE ExecFor(_, _, _, _, _, _)
ExecFor(s, i, gnames, g, l, h) ==
    IF i >= s.hi THEN Ran(h)
    ELSE LET r == ExecSuite(s.body, 1, gnames, g, l,
                            Store(s.target, IntV(i), gnames, g, l, h)) IN
         IF r.ok THEN ExecFor(s, i + 1, gnames, g, l, r.h) ELSE r

\* one top-level statement
ExecStmt(s, gnames, g, l, h) ==
    CASE s.k = "For" -> ExecFor(s, s.lo, gnames, g, l, h)
      [] s.k = "If" ->
           LET r == EvalExpr(s.test, gnames, g, l, h) IN
           IF ~r.ok THEN Faulted(r.exc, h)
           ELSE IF Truthy(r.v) THEN ExecSuite(s.body, 1, gnames, g, l, h)
           ELSE Ran(h)
      [] OTHER -> ExecSimple(s, gnames, g, l, h)

\* the statements j.. of a module body, in order, stopping at the first fault
RECURSIVE ExecBody(_, _, _, _, _, _)
ExecBody(body, j, gnames, g, l, h) ==
    IF j > Len(body) THEN Ran(h)
    ELSE LET r == ExecStmt(body[j], gnames, g, l, h) IN
         IF r.ok THEN ExecBody(body, j + 1, gnames, g, l, r.h) ELSE r

----------------------------------------------------------------------------
(* The state *)

VARIABLES
    NONE_EXPRESSION,  \* the module-level placeholder node, shared by every call
    heap,             \* the content of each mapping object
    fast,             \* the calling function's local variables (fast locals)
    pc,               \* where the current call stands
    via,              \* "block_eval", or "split_block" for a caller that splits by hand
    code_str, globals_, locals_,   \* the arguments of the current call
    stack,            \* the frames below block_eval's, outermost first
    frameSupport,     \* whether inspect.currentframe() returns a frame
    p_globals, p_locals,           \* the mappings the two units run against
    exec_part, eval_part,          \* the code objects split_block returned
    ip,               \* the next statement of exec_part to execute
    ret, exc,         \* the value returned, the exception raised
    log,              \* what the current call executed and evaluated, in order
    heap0,            \* heap when the scope of the current call was resolved
    calls             \* calls made so far

vars ==
    << NONE_EXPRESSION, heap, fast, pc, via, code_str, globals_, locals_, stack,
       frameSupport, p_globals, p_locals, exec_part, eval_part, ip, ret, exc,
       log, heap0, calls >>

EmptyMap == [n \in {} |-> NoneV]

\* mapping objects: the caller's explicit arguments, the calling module's
\* globals, the calling function's f_locals dict, block_eval's module globals
\* and the dict locals() returns inside block_eval
Mappings == {"G", "L", "callerG", "callerFL", "modG", "ownL"}

ModuleFrame ==
    [kind |-> "module", f_globals |-> "callerG", f_locals |-> "callerG"]
FunctionFrame ==
    [kind |-> "function", f_globals |-> "callerG", f_locals |-> "callerFL"]
NoneFrame == [kind |-> "None"]

\* the names the calling function's code treats as local variables
CoVarnames == {"a"}

NoCode == [mode |-> "none", body |-> << >>, gnames |-> {}]

----------------------------------------------------------------------------
(* split_block *)

\* SplitBody taking the expression that is lexically last, also when it ends
\* the suite of a trailing loop or conditional
SplitBody_Lexical(body) ==
    IF Len(body) > 0 /\ body[Len(body)].k = "Expr"
    THEN [expr |-> Expression(body[Len(body)].value),
          body |-> SubSeq(body, 1, Len(body) - 1)]
    ELSE IF Len(body) > 0 /\ body[Len(body)].k \in {"For", "If"}
            /\ body[Len(body)].body[Len(body[Len(body)].body)].k = "Expr"
    THEN LET last == body[Len(body)]
             m == Len(last.body)
         IN [expr |-> Expression(last.body[m].value),
             body |-> SubSeq(body, 1, Len(body) - 1) \o
                      (IF m = 1 THEN << >>
                       ELSE << [last EXCEPT !.body = SubSeq(last.body, 1, m - 1)] >>)]
    ELSE [expr |-> NONE_EXPRESSION, body |-> body]

\* SplitBody without "del code_ast.body[-1]"
SplitBody_KeepTail(body) ==
    IF Len(body) > 0 /\ body[Len(body)].k = "Expr"
    THEN [expr |-> Expression(body[Len(body)].value), body |-> body]
    ELSE [expr |-> NONE_EXPRESSION, body |-> body]

\* lines 19-23: cut the trailing expression statement off the body
SplitBody(body) ==
    IF Len(body) > 0 /\ body[Len(body)].k = "Expr"
    THEN [expr |-> Expression(body[Len(body)].value),
          body |-> SubSeq(body, 1, Len(body) - 1)]
    ELSE [expr |-> NONE_EXPRESSION, body |-> body]

\* split_block handing out the preamble although compiling it failed
split_block_NoExecCheck(text) ==
    LET code_ast == parse(text) IN
    IF ~code_ast.ok THEN SyntaxErr
    ELSE LET cut == SplitBody(code_ast.body)
             ev == CompileEval(cut.expr)
         IN IF ~ev.ok THEN SyntaxErr
            ELSE [ok |-> TRUE,
                  exec_part |-> [mode |-> "exec", body |-> cut.body,
                                 gnames |-> GlobalNames(cut.body)],
                  eval_part |-> ev.code]

split_block(text) ==
    LET code_ast == parse(text) IN
    IF ~code_ast.ok THEN SyntaxErr
    ELSE LET cut == SplitBody(code_ast.body)
             ev == CompileEval(cut.expr)
             ex == CompileExec(cut.body)
         IN IF ~ev.ok THEN SyntaxErr
            ELSE IF ~ex.ok THEN SyntaxErr
            ELSE [ok |-> TRUE, exec_part |-> ex.code, eval_part |-> ev.code]

----------------------------------------------------------------------------
(* block_eval: scope resolution *)

\* ParentFrame going two frames up
ParentFrame_TwoUp(st, fs) ==
    IF ~fs \/ Len(st) < 2 THEN NoneFrame ELSE st[Len(st) - 1]

\* current_frame.f_back, None when there is no current frame or no caller
ParentFrame(st, fs) ==
    IF ~fs \/ st = << >> THEN NoneFrame ELSE st[Len(st)]

\* lines 45-52: the calling frame's scope, or the fallback of the except branch
CallerScope(st, fs) ==
    LET parent_frame == ParentFrame(st, fs) IN
    IF parent_frame.kind = "None"
    THEN [g |-> "ownL", l |-> "modG", fallback |-> TRUE]
    ELSE [g |-> parent_frame.f_globals, l |-> parent_frame.f_locals,
          fallback |-> FALSE]

\* ResolveScope dropping the explicit locals mapping
ResolveScope_LocalsIgnored(g_, l_, st, fs) ==
    LET c == CallerScope(st, fs) IN
    IF g_ # "None"
    THEN [g |-> g_, l |-> g_, fallback |-> c.fallback]
    ELSE c

\* ResolveScope doing what eval does with a locals mapping given alone
ResolveScope_EvalLike(g_, l_, st, fs) ==
    LET c == CallerScope(st, fs) IN
    IF g_ # "None"
    THEN [g |-> g_, l |-> IF l_ = "None" THEN g_ ELSE l_, fallback |-> c.fallback]
    ELSE IF l_ # "None" THEN [c EXCEPT !.l = l_]
    ELSE c

\* lines 45-56
ResolveScope(g_, l_, st, fs) ==
    LET c == CallerScope(st, fs) IN
    IF g_ # "None"
    THEN [g |-> g_, l |-> IF l_ = "None" THEN g_ ELSE l_, fallback |-> c.fallback]
    ELSE c

\* reading f_locals of a function frame refreshes the frame's dict from its
\* fast locals; keys that are no local variable of the function stay
FastToLocals(m, fa) ==
    [n \in (DOMAIN m \ CoVarnames) \cup DOMAIN fa |->
        IF n \in DOMAIN fa THEN fa[n] ELSE m[n]]

\* what a later reference to name n in the calling function's code gives
CallerSees(n) ==
    IF n \in CoVarnames
    THEN IF n \in DOMAIN fast THEN Value(fast[n]) ELSE Raise("UnboundLocalError")
    ELSE IF n \in DOMAIN heap["callerG"] THEN Value(heap["callerG"][n])
         ELSE Raise("NameError")

----------------------------------------------------------------------------
(* Initial state and actions *)

Init ==
    /\ NONE_EXPRESSION = Expression(Const(NoneV))
    /\ heap = [m \in Mappings |->
                 IF m \in {"callerG", "modG"}
                 THEN Bind(EmptyMap, "__builtins__", BuiltinsV) ELSE EmptyMap]
    /\ fast = EmptyMap
    /\ pc = "idle"
    /\ via = "none"
    /\ code_str = << >>
    /\ globals_ = "None"
    /\ locals_ = "None"
    /\ stack = << >>
    /\ frameSupport = TRUE
    /\ p_globals = "None"
    /\ p_locals = "None"
    /\ exec_part = NoCode
    /\ eval_part = NoCode
    /\ ip = 0
    /\ ret = NoneV
    /\ exc = "none"
    /\ log = << >>
    /\ heap0 = heap
    /\ calls = 0

\* where a call comes from: the frames below it, whether frames can be
\* inspected, the calling function's local variables, and whether the calling
\* function's frame is a new one (its f_locals dict not yet created)
Ctx(st, fs, fa, fr) == [stack |-> st, fs |-> fs, fast |-> fa, fresh |-> fr]

CtxNoParent == Ctx(<< >>, TRUE, EmptyMap, TRUE)
CtxNoFrames == Ctx(<< ModuleFrame >>, FALSE, EmptyMap, TRUE)
CtxModule == Ctx(<< ModuleFrame >>, TRUE, EmptyMap, TRUE)
CtxFunction == Ctx(<< ModuleFrame, FunctionFrame >>, TRUE,
                   Bind(EmptyMap, "a", IntV(6)), TRUE)

CallerContexts ==
    { CtxNoParent, CtxNoFrames, CtxModule }
    \cup
    { Ctx(<< ModuleFrame, FunctionFrame >>, TRUE, fa, fr) :
        fa \in {EmptyMap, Bind(EmptyMap, "a", IntV(6))}, fr \in BOOLEAN }

\* the calls made: every context without explicit mappings; an explicit
\* locals mapping alone, explicit globals alone, and both, from a function
\* and from where no calling frame is found
CallShapes ==
    { [g_ |-> "None", l_ |-> "None", ctx |-> c] : c \in CallerContexts }
    \cup
    { [g_ |-> g, l_ |-> l, ctx |-> c] :
        g \in {"None", "G"}, l \in {"None", "L"}, c \in {CtxFunction, CtxNoParent} }

\* a caller calls block_eval(code, g_, l_)
Call(code, g_, l_, ctx) ==
    /\ pc = "idle"
    /\ calls < MaxCalls
    /\ pc' = "scope"
    /\ via' = "block_eval"
    /\ code_str' = code
    /\ globals_' = g_
    /\ locals_' = l_
    /\ stack' = ctx.stack
    /\ frameSupport' = ctx.fs
    /\ fast' = ctx.fast
    /\ heap' = [heap EXCEPT !["ownL"] = EmptyMap,
                            !["callerFL"] = IF ctx.fresh THEN EmptyMap ELSE @]
    /\ calls' = calls + 1
    /\ UNCHANGED << NONE_EXPRESSION, p_globals, p_locals, exec_part, eval_part,
                    ip, ret, exc, log, heap0 >>

\* lines 45-56 of block_eval
Resolve ==
    /\ pc = "scope"
    /\ LET r == ResolveScope(globals_, locals_, stack, frameSupport)
           h == IF ParentFrame(stack, frameSupport).kind = "function"
                THEN [heap EXCEPT !["callerFL"] = FastToLocals(@, fast)]
                ELSE heap
       IN /\ p_globals' = r.g
          /\ p_locals' = r.l
          /\ heap' = h
          /\ heap0' = h
    /\ pc' = "split"
    /\ UNCHANGED << NONE_EXPRESSION, fast, via, code_str, globals_, locals_,
                    stack, frameSupport, exec_part, eval_part, ip, ret, exc,
                    log, calls >>

\* a caller calls split_block(code) itself, to exec and eval the two units
\* against the pair (g, l) of its choosing
ManualCall(code, g, l) ==
    /\ pc = "idle"
    /\ calls < MaxCalls
    /\ pc' = "split"
    /\ via' = "split_block"
    /\ code_str' = code
    /\ p_globals' = g
    /\ p_locals' = l
    /\ heap0' = heap
    /\ calls' = calls + 1
    /\ UNCHANGED << NONE_EXPRESSION, heap, fast, globals_, locals_, stack,
                    frameSupport, exec_part, eval_part, ip, ret, exc, log >>

\* line 58: exec_part, eval_part = split_block(code_str, block_name)
Split ==
    /\ pc = "split"
    /\ LET r == split_block(code_str) IN
       IF r.ok
       THEN /\ exec_part' = r.exec_part
            /\ eval_part' = r.eval_part
            /\ ip' = 1
            /\ pc' = "exec"
            /\ exc' = exc
       ELSE /\ pc' = "raised"
            /\ exc' = r.exc
            /\ UNCHANGED << exec_part, eval_part, ip >>
    /\ UNCHANGED << NONE_EXPRESSION, heap, fast, via, code_str, globals_,
                    locals_, stack, frameSupport, p_globals, p_locals, ret, log,
                    heap0, calls >>

\* ExecStep going on to the next statement after a fault
ExecStep_Swallow ==
    /\ pc = "exec"
    /\ ip <= Len(exec_part.body)
    /\ LET s == exec_part.body[ip]
           r == ExecStmt(s, exec_part.gnames, p_globals, p_locals,
                         EnsureBuiltins(heap, p_globals))
       IN /\ heap' = r.h
          /\ log' = Append(log, [op |-> "exec", node |-> s])
          /\ ip' = ip + 1
    /\ UNCHANGED << NONE_EXPRESSION, fast, via, code_str, globals_, locals_,
                    stack, frameSupport, p_globals, p_locals, exec_part,
                    eval_part, ret, heap0, calls, pc, exc >>

\* line 59: exec(exec_part, p_globals, p_locals), one top-level statement
ExecStep ==
    /\ pc = "exec"
    /\ ip <= Len(exec_part.body)
    /\ LET s == exec_part.body[ip]
           r == ExecStmt(s, exec_part.gnames, p_globals, p_locals,
                         EnsureBuiltins(heap, p_globals))
       IN /\ heap' = r.h
          /\ log' = Append(log, [op |-> "exec", node |-> s])
          /\ IF r.ok
             THEN /\ ip' = ip + 1
                  /\ UNCHANGED << pc, exc >>
             ELSE /\ pc' = "raised"
                  /\ exc' = r.exc
                  /\ ip' = ip
    /\ UNCHANGED << NONE_EXPRESSION, fast, via, code_str, globals_, locals_,
                    stack, frameSupport, p_globals, p_locals, exec_part,
                    eval_part, ret, heap0, calls >>

\* EvalTail undoing the preamble when the tail faults
EvalTail_Rollback ==
    /\ pc = "exec"
    /\ ip > Len(exec_part.body)
    /\ LET h == EnsureBuiltins(heap, p_globals)
           r == EvalExpr(eval_part.body, eval_part.gnames, p_globals, p_locals, h)
       IN /\ heap' = (IF r.ok THEN h ELSE heap0)
          /\ log' = Append(log, [op |-> "eval", node |-> eval_part.body])
          /\ IF r.ok
             THEN /\ pc' = "returned"
                  /\ ret' = r.v
                  /\ exc' = exc
             ELSE /\ pc' = "raised"
                  /\ exc' = r.exc
                  /\ ret' = ret
    /\ UNCHANGED << NONE_EXPRESSION, fast, via, code_str, globals_, locals_,
                    stack, frameSupport, p_globals, p_locals, exec_part,
                    eval_part, ip, heap0, calls >>

\* line 60: return eval(eval_part, p_globals, p_locals)
EvalTail ==
    /\ pc = "exec"
    /\ ip > Len(exec_part.body)
    /\ LET h == EnsureBuiltins(heap, p_globals)
           r == EvalExpr(eval_part.body, eval_part.gnames, p_globals, p_locals, h)
       IN /\ heap' = h
          /\ log' = Append(log, [op |-> "eval", node |-> eval_part.body])
          /\ IF r.ok
             THEN /\ pc' = "returned"
                  /\ ret' = r.v
                  /\ exc' = exc
             ELSE /\ pc' = "raised"
                  /\ exc' = r.exc
                  /\ ret' = ret
    /\ UNCHANGED << NONE_EXPRESSION, fast, via, code_str, globals_, locals_,
                    stack, frameSupport, p_globals, p_locals, exec_part,
                    eval_part, ip, heap0, calls >>

\* the call is over: its frame and its arguments are gone, the mappings stay
Return ==
    /\ pc \in {"returned", "raised"}
    /\ pc' = "idle"
    /\ via' = "none"
    /\ code_str' = << >>
    /\ globals_' = "None"
    /\ locals_' = "None"
    /\ stack' = << >>
    /\ frameSupport' = TRUE
    /\ p_globals' = "None"
    /\ p_locals' = "None"
    /\ exec_part' = NoCode
    /\ eval_part' = NoCode
    /\ ip' = 0
    /\ ret' = NoneV
    /\ exc' = "none"
    /\ log' = << >>
    /\ heap0' = heap
    /\ fast' = EmptyMap
    /\ UNCHANGED << NONE_EXPRESSION, heap, calls >>

Next ==
    \/ \E code \in Blocks, c \in CallShapes : Call(code, c.g_, c.l_, c.ctx)
    \/ Resolve
    \/ \E code \in Blocks, g \in {"G"}, l \in {"G", "L"} : ManualCall(code, g, l)
    \/ Split
    \/ ExecStep
    \/ EvalTail
    \/ Return

Spec == Init /\ [][Next]_vars

----------------------------------------------------------------------------
(* Properties *)

\* the parsed body of the current call's block (when it parses)
Body == parse(code_str).body

HasTail(body) == Len(body) > 0 /\ body[Len(body)].k = "Expr"

\* the two units were built and the call went on to run them
Running ==
    pc \in {"exec", "returned"} \/ (pc = "raised" /\ exc # "SyntaxError")

\* the heap exec() starts from
Heap0 == EnsureBuiltins(heap0, p_globals)

ExecEntries(stmts) == [j \in 1..Len(stmts) |-> [op |-> "exec", node |-> stmts[j]]]

\* Executing the whole block as one module-level unit and taking the value of
\* its trailing expression statement: the body is compiled as one unit, so a
\* global declaration governs the trailing expression too.
WholeBlock(body, g, l, h) ==
    LET n == Len(body)
        gnames == GlobalNames(body)
        r == ExecBody(SubSeq(body, 1, n - 1), 1, gnames, g, l, h)
    IN IF ~r.ok THEN [ok |-> FALSE, exc |-> r.exc, h |-> r.h]
       ELSE LET v == EvalExpr(body[n].value, gnames, g, l, r.h) IN
            IF v.ok THEN [ok |-> TRUE, v |-> v.v, h |-> r.h]
            ELSE [ok |-> FALSE, exc |-> v.exc, h |-> r.h]

\* C1: for a block S; E whose last top-level statement is an expression
\* statement, the preamble unit holds exactly S in order, the tail unit is E,
\* and a call that returns gives the value and leaves the bindings that
\* executing the whole statement sequence and taking the value of E gives.
C1_SplitEquivalentToWhole ==
    (Running /\ HasTail(Body)) =>
        /\ exec_part.body = SubSeq(Body, 1, Len(Body) - 1)
        /\ eval_part.body = Body[Len(Body)].value
        /\ pc = "returned" =>
             LET w == WholeBlock(Body, p_globals, p_locals, Heap0)
             IN w.ok /\ ret = w.v /\ heap = w.h

\* C2: for a block that is empty or whose last top-level statement is not an
\* expression statement, the preamble unit holds every statement of the block,
\* the tail unit is the placeholder, and a call that returns returns None; the
\* shared placeholder evaluates to None in every state, whatever calls came
\* before.
C2_NoTrailingExpression ==
    /\ EvalExpr(NONE_EXPRESSION.body, {}, "G", "L", heap) = Value(NoneV)
    /\ (Running /\ ~HasTail(Body)) =>
          /\ exec_part.body = Body
          /\ eval_part.body = Const(NoneV)
          /\ pc = "returned" => ret = NoneV

C2_Witness ==
    /\ calls = 2
    /\ pc = "returned"
    /\ code_str = TextNonReturning
    /\ ret = NoneV
    /\ Len(exec_part.body) = 1

\* C3: while the preamble runs, exactly its first statements have been
\* executed, once each and in source order, and the tail has not been
\* evaluated; a call that returns has executed every statement of the block
\* before its trailing expression once, in order, and then evaluated the tail
\* once.
C3_OnceInOrder ==
    LET pre == IF HasTail(Body) THEN SubSeq(Body, 1, Len(Body) - 1) ELSE Body
        tail == IF HasTail(Body) THEN Body[Len(Body)].value ELSE Const(NoneV)
    IN /\ pc = "exec" =>
            /\ ip - 1 <= Len(pre)
            /\ log = ExecEntries(SubSeq(pre, 1, ip - 1))
       /\ pc = "returned" =>
            log = ExecEntries(pre) \o << [op |-> "eval", node |-> tail] >>

C3_Witness ==
    /\ pc = "returned"
    /\ code_str = TextReturning
    /\ Len(log) = 3
    /\ ret = IntV(6)

\* C4: with an explicit globals mapping G, both units run against (G, L) when
\* a locals mapping L is given and against (G, G) when none is; "b = 42" then
\* binds b in L and not in G, respectively in G; the calling frame's mappings
\* and block_eval's own are left as they were.
C4_ExplicitScope ==
    (via = "block_eval" /\ globals_ = "G" /\ pc \in {"split", "exec", "returned", "raised"}) =>
        /\ p_globals = "G"
        /\ p_locals = (IF locals_ = "None" THEN "G" ELSE locals_)
        /\ \A m \in {"callerG", "callerFL", "modG", "ownL"} : heap[m] = heap0[m]
        /\ (pc = "returned" /\ code_str = TextAssign) =>
             IF locals_ = "L"
             THEN /\ "b" \in DOMAIN heap["L"]
                  /\ heap["L"]["b"] = IntV(42)
                  /\ DOMAIN heap["G"] \ {"__builtins__"} = DOMAIN heap0["G"] \ {"__builtins__"}
             ELSE /\ "b" \in DOMAIN heap["G"]
                  /\ heap["G"]["b"] = IntV(42)

C4_Witness ==
    /\ via = "block_eval"
    /\ pc = "returned"
    /\ code_str = TextAssign
    /\ globals_ = "G"
    /\ locals_ = "L"
    /\ "b" \in DOMAIN heap["L"]
    /\ "b" \notin DOMAIN heap["G"]

\* the call was made from a function, with no explicit mapping
FromFunction ==
    /\ via = "block_eval"
    /\ globals_ = "None"
    /\ locals_ = "None"
    /\ frameSupport
    /\ stack # << >>
    /\ stack[Len(stack)].kind = "function"

\* C5: called from a function with no explicit scopes, the block runs against
\* the globals and the f_locals of that function's frame: "a * 7" returns 42
\* when the caller has a = 6; "b = 42" returns, yet b is no local of the caller
\* afterwards and, b not being a global of the caller either, the caller's
\* reference to b raises NameError.
C5_CallerFrameScope ==
    (FromFunction /\ pc \in {"split", "exec", "returned", "raised"}) =>
        /\ p_globals = "callerG"
        /\ p_locals = "callerFL"
        /\ (code_str = TextExprWithVar /\ "a" \in DOMAIN fast
              /\ pc \in {"returned", "raised"}) =>
             pc = "returned" /\ ret = Apply("*", fast["a"], IntV(7)).v
        /\ (code_str = TextAssign /\ pc \in {"returned", "raised"}) =>
             /\ pc = "returned"
             /\ "b" \notin DOMAIN fast
             /\ "b" \notin DOMAIN heap0["callerG"] => CallerSees("b") = Raise("NameError")

C5_Witness ==
    /\ FromFunction
    /\ pc = "returned"
    /\ code_str = TextAssign
    /\ heap["callerFL"]["b"] = IntV(42)
    /\ CallerSees("b") = Raise("NameError")

\* the parser or one of the two compile calls rejects the text
Rejected(text) ==
    \/ ~parse(text).ok
    \/ ~CompileEval(SplitBody(parse(text).body).expr).ok
    \/ ~CompileExec(SplitBody(parse(text).body).body).ok

\* C6: when the text is rejected, the call raises SyntaxError with nothing
\* executed, nothing evaluated and every mapping as it was.
C6_SyntaxErrorBeforeExecution ==
    (Rejected(code_str) /\ pc \in {"exec", "returned", "raised"}) =>
        /\ pc = "raised"
        /\ exc = "SyntaxError"
        /\ log = << >>
        /\ heap = heap0

C6_Witness ==
    /\ via = "block_eval"
    /\ pc = "raised"
    /\ exc = "SyntaxError"
    /\ code_str = TextGlobalAfterUse
    /\ "b" \notin DOMAIN heap[p_locals]

\* the top-level statements of the preamble that fault when the preamble is
\* executed from the heap the call started with
FaultAt ==
    {j \in 1..Len(exec_part.body) :
        ~ExecBody(SubSeq(exec_part.body, 1, j), 1, exec_part.gnames,
                  p_globals, p_locals, Heap0).ok}

Min(S) == CHOOSE x \in S : \A y \in S : x <= y

\* C7: once the preamble statement that faults has been executed, the call has
\* raised that fault, no later statement has been executed, the tail has not
\* been evaluated, and what the statements before the fault did remains.
C7_PreambleFault ==
    (Running /\ FaultAt # {} /\ Len(log) >= Min(FaultAt)) =>
        LET j == Min(FaultAt)
            r == ExecBody(SubSeq(exec_part.body, 1, j), 1, exec_part.gnames,
                          p_globals, p_locals, Heap0)
        IN /\ pc = "raised"
           /\ exc = r.exc
           /\ log = ExecEntries(SubSeq(exec_part.body, 1, j))
           /\ heap = r.h

C7_Witness ==
    /\ pc = "raised"
    /\ exc = "NameError"
    /\ code_str = TextPreambleFault
    /\ Len(log) = 2
    /\ heap[p_locals]["b"] = IntV(1)

\* C8: when evaluating the tail faults, the call raises that fault, returns no
\* value, and the heap is the one the completed preamble left.
C8_TailFault ==
    (Running /\ log # << >> /\ log[Len(log)].op = "eval"
       /\ ~EvalExpr(eval_part.body, eval_part.gnames, p_globals, p_locals, heap).ok) =>
        LET r == ExecBody(exec_part.body, 1, exec_part.gnames, p_globals,
                          p_locals, Heap0)
        IN /\ pc = "raised"
           /\ exc = EvalExpr(eval_part.body, eval_part.gnames, p_globals,
                             p_locals, r.h).exc
           /\ ret = NoneV
           /\ r.ok
           /\ heap = r.h

C8_Witness ==
    /\ pc = "raised"
    /\ exc = "ZeroDivisionError"
    /\ code_str = TextTailFault
    /\ heap[p_locals]["b"] = IntV(42)
    /\ "b" \notin DOMAIN heap0[p_locals]

\* C9: with no explicit globals and no calling frame to be found, the mapping
\* used as globals is block_eval's module globals and the mapping used as
\* locals is block_eval's own locals.
C9_FallbackRolesStraight ==
    (via = "block_eval" /\ globals_ = "None"
       /\ ParentFrame(stack, frameSupport).kind = "None"
       /\ pc \in {"split", "exec", "returned", "raised"}) =>
        /\ p_globals = "modG"
        /\ p_locals = "ownL"

\* C10: an explicit locals mapping given without a globals mapping is not
\* used: the units run against the calling frame's mappings, L is neither
\* read nor written, and a name bound only in L is unbound for the block.
C10_LocalsAloneIgnored ==
    (via = "block_eval" /\ globals_ = "None" /\ locals_ = "L"
       /\ pc \in {"split", "exec", "returned", "raised"}) =>
        /\ p_globals # "L"
        /\ p_locals # "L"
        /\ heap["L"] = heap0["L"]
        /\ ParentFrame(stack, frameSupport).kind = "function" =>
             /\ p_globals = "callerG"
             /\ p_locals = "callerFL"
             /\ (code_str = TextName /\ pc \in {"returned", "raised"}
                   /\ "b" \notin DOMAIN heap0["callerG"] \cup DOMAIN heap0["callerFL"]) =>
                  pc = "raised" /\ exc = "NameError"

C10_Witness ==
    /\ via = "block_eval"
    /\ globals_ = "None"
    /\ locals_ = "L"
    /\ ParentFrame(stack, frameSupport).kind = "function"
    /\ code_str = TextName
    /\ "b" \in DOMAIN heap["L"]
    /\ pc = "raised"
    /\ exc = "NameError"

====
